---- MODULE Spec2Model ----
(***************************************************************************)
(* Model of the capital-account allocation engine:                         *)
(*   backend/app/services/capital_account_manager.py  (CapitalAccountManager)*)
(*   backend/app/utils/tax_calculations.py            (utility functions)   *)
(*                                                                         *)
(* Amounts are Python decimal.Decimal values.  A Decimal is modelled as    *)
(* the record [c |-> coefficient, e |-> exponent] with value c * 10^e,     *)
(* kept in a canonical form (no trailing zero in c, zero is [0,0]), and    *)
(* every arithmetic result is rounded to the context precision with        *)
(* ROUND_HALF_EVEN, as the decimal module does.  The context precision of  *)
(* CPython is 28 digits; the model runs the same algorithms with           *)
(* DecimalPrec digits so that coefficients fit the integers of TLC.        *)
(***************************************************************************)
EXTENDS Integers, Sequences, FiniteSets, TLC

\* decimal context precision of the model (CPython default context: 28)
DecimalPrec == 4

Abs(n) == IF n < 0 THEN -n ELSE n

Sign(n) == IF n < 0 THEN -1 ELSE 1

RECURSIVE Digits(_)
\* number of decimal digits of |n| (1 for 0)
Digits(n) == IF Abs(n) < 10 THEN 1 ELSE 1 + Digits(Abs(n) \div 10)

RECURSIVE Strip(_, _)
\* canonical form of c * 10^e
Strip(c, e) ==
    IF c = 0 THEN [c |-> 0, e |-> 0]
    ELSE IF c % 10 = 0 THEN Strip(c \div 10, e + 1)
    ELSE [c |-> c, e |-> e]

\* c * 10^e rounded to DecimalPrec significant digits, ROUND_HALF_EVEN
\* (decimal.Context._fix under the default context)
Fix(c, e) ==
    LET d == Digits(c) - DecimalPrec
    IN  IF d <= 0 THEN Strip(c, e)
        ELSE LET p    == 10 ^ d
                 q    == Abs(c) \div p
                 r    == Abs(c) % p
                 up   == (2 * r > p) \/ (2 * r = p /\ q % 2 = 1)
                 q2   == IF up THEN q + 1 ELSE q
             IN  Strip(Sign(c) * q2, e + d)

\* Decimal(str(n)) for an amount given as a whole number of cents
Cents(n) == Strip(n, -2)

\* Decimal(str(n)) for a whole number n
Whole(n) == Strip(n, 0)

DZero == [c |-> 0, e |-> 0]

\* Decimal.__add__
DAdd(a, b) ==
    IF a.c = 0 THEN b
    ELSE IF b.c = 0 THEN a
    ELSE LET hi   == IF a.e >= b.e THEN a ELSE b
             lo   == IF a.e >= b.e THEN b ELSE a
             diff == hi.e - lo.e
         IN  IF diff + Digits(hi.c) - DecimalPrec >= Digits(lo.c) + 2
             THEN hi   \* lo lies below the last kept digit: absorbed by rounding
             ELSE Fix(hi.c * (10 ^ diff) + lo.c, lo.e)

DNeg(a) == [c |-> -(a.c), e |-> a.e]

\* Decimal.__sub__
DSub(a, b) == DAdd(a, DNeg(b))

\* Decimal.__mul__
DMul(a, b) == Fix(a.c * b.c, a.e + b.e)

\* Decimal.__truediv__ (b # 0): the quotient to DecimalPrec + 1 digits with a
\* sticky digit for a non-zero remainder, then rounded by the context
DDiv(a, b) ==
    IF a.c = 0 THEN DZero
    ELSE LET shift == Digits(b.c) - Digits(a.c) + DecimalPrec + 1
             num   == Abs(a.c) * (10 ^ shift)
             q     == num \div Abs(b.c)
             r     == num % Abs(b.c)
             coeff == IF r # 0 /\ q % 5 = 0 THEN q + 1 ELSE q
         IN  Fix(Sign(a.c) * Sign(b.c) * coeff, a.e - b.e - shift)

\* comparisons: the sign of the difference (rounding never changes it)
DLt(a, b) == DSub(a, b).c < 0

DLe(a, b) == DSub(a, b).c <= 0

DGt(a, b) == DSub(a, b).c > 0

\* min(a, b) of Python: b only when b < a
DMin(a, b) == IF DLt(b, a) THEN b ELSE a

\* abs(a)
DAbs(a) == [c |-> Abs(a.c), e |-> a.e]

\* a.quantize(Decimal('0.01'), rounding=ROUND_HALF_UP)
QuantizeHalfUp(a) ==
    IF a.e >= -2 THEN a
    ELSE LET d == -2 - a.e
         IN  IF d > DecimalPrec THEN DZero
             ELSE LET p == 10 ^ d
                      q == Abs(a.c) \div p
                      r == Abs(a.c) % p
                      q2 == IF 2 * r >= p THEN q + 1 ELSE q
                  IN  Strip(Sign(a.c) * q2, -2)

\* a.quantize(Decimal('0.01')): the context's rounding, ROUND_HALF_EVEN
QuantizeHalfEven(a) ==
    IF a.e >= -2 THEN a
    ELSE LET d == -2 - a.e
         IN  IF d > DecimalPrec THEN DZero
             ELSE LET p == 10 ^ d
                      q == Abs(a.c) \div p
                      r == Abs(a.c) % p
                      up == (2 * r > p) \/ (2 * r = p /\ q % 2 = 1)
                      q2 == IF up THEN q + 1 ELSE q
                  IN  Strip(Sign(a.c) * q2, -2)

\* the amount in whole cents of a value that is a multiple of 0.01
InCents(a) == IF a.e >= -2 THEN a.c * (10 ^ (a.e + 2)) ELSE 0

----------------------------------------------------------------------------
(* Inputs: partners and waterfall steps                                    *)

\* the partners of the list, in list order (partner_id is unique)
PartnerIds == <<"A", "B">>

\* largest capital_contributed of a partner, in cents
MaxCapital == 2

\* largest total_fair_market_value / total_proceeds, in cents
MaxProceeds == 2

\* largest number of steps in distribution_waterfall
MaxSteps == 2

\* ownership_percentage values of a partner
Ownerships == {0, 1, 2}

\* (partner_type, receives_preferred_return, receives_promote) of a partner
PartnerRoles ==
    { <<"limited", TRUE, FALSE>>, <<"limited", FALSE, FALSE>>,
      <<"general", FALSE, TRUE>>, <<"general", TRUE, FALSE>> }

\* a partner dict of the partners list
PartnerDicts(id) ==
    { [partner_id |-> id, partner_type |-> r[1],
       receives_preferred_return |-> r[2], receives_promote |-> r[3],
       capital_contributed |-> cap, ownership_percentage |-> own]
      : r \in PartnerRoles, cap \in 0..MaxCapital, own \in Ownerships }

\* the partners lists: one dict per partner id, in order
PartnerLists ==
    { <<a, b>> : a \in PartnerDicts(PartnerIds[1]), b \in PartnerDicts(PartnerIds[2]) }

\* the step dicts of distribution_waterfall: "rate" is given in hundredths
\* (50 is the rate 0.50), "percentage" as a whole number (50 is 50 percent)
WaterfallSteps ==
    { [type |-> "return_of_capital", rate |-> 0, percentage |-> 0],
      [type |-> "preferred_return", rate |-> 50, percentage |-> 0],
      [type |-> "catch_up", rate |-> 0, percentage |-> 50],
      [type |-> "promote", rate |-> 0, percentage |-> 50],
      [type |-> "pro_rata", rate |-> 0, percentage |-> 0] }

\* {p["partner_id"]: Decimal('0') for p in partners}
ZeroMap(partners) ==
    [id \in {partners[i].partner_id : i \in 1..Len(partners)} |-> DZero]

RECURSIVE SumOwnershipFrom(_, _, _)
\* the running sum acc after adding the ownership of the partners from i on
SumOwnershipFrom(partners, i, acc) ==
    IF i > Len(partners) THEN acc
    ELSE SumOwnershipFrom(partners, i + 1,
             DAdd(acc, Whole(partners[i].ownership_percentage)))

\* sum(Decimal(str(p.get("ownership_percentage", 0))) for p in partners)
SumOwnership(partners) == SumOwnershipFrom(partners, 1, DZero)

----------------------------------------------------------------------------
(* CapitalAccountManager._model_liquidation_distribution                   *)

RECURSIVE MgrReturnOfCapitalLessReserve(_, _, _, _)
\* mutant of MgrReturnOfCapital: a reserve equal to the partner's capital is
\* held back from the pool before the minimum is taken
MgrReturnOfCapitalLessReserve(partners, i, pd, rem) ==
    IF i > Len(partners) THEN [pd |-> pd, rem |-> rem]
    ELSE LET p    == partners[i]
             dist == DMin(Cents(p.capital_contributed),
                          DSub(rem, Cents(p.capital_contributed)))
             pd2  == [pd EXCEPT ![p.partner_id] = DAdd(@, dist)]
             rem2 == DSub(rem, dist)
         IN  IF DLe(rem2, DZero) THEN [pd |-> pd2, rem |-> rem2]
             ELSE MgrReturnOfCapitalLessReserve(partners, i + 1, pd2, rem2)

RECURSIVE MgrReturnOfCapital(_, _, _, _)
\* the return_of_capital branch, from partner i on
MgrReturnOfCapital(partners, i, pd, rem) ==
    IF i > Len(partners) THEN [pd |-> pd, rem |-> rem]
    ELSE LET p    == partners[i]
             dist == DMin(Cents(p.capital_contributed), rem)
             pd2  == [pd EXCEPT ![p.partner_id] = DAdd(@, dist)]
             rem2 == DSub(rem, dist)
         IN  IF DLe(rem2, DZero) THEN [pd |-> pd2, rem |-> rem2]
             ELSE MgrReturnOfCapital(partners, i + 1, pd2, rem2)

RECURSIVE MgrPreferredReturn(_, _, _, _, _)
\* the preferred_return branch, from partner i on
MgrPreferredReturn(partners, i, pd, rem, rate) ==
    IF i > Len(partners) THEN [pd |-> pd, rem |-> rem]
    ELSE LET p == partners[i]
         IN  IF p.partner_type = "limited"
             THEN LET preferred == DMul(Cents(p.capital_contributed), rate)
                      dist      == DMin(preferred, rem)
                  IN  MgrPreferredReturn(partners, i + 1,
                          [pd EXCEPT ![p.partner_id] = DAdd(@, dist)],
                          DSub(rem, dist), rate)
             ELSE MgrPreferredReturn(partners, i + 1, pd, rem, rate)

RECURSIVE MgrCatchUpWhole(_, _, _, _, _)
\* mutant of MgrCatchUp: the percentage is applied as a whole number, each
\* general partner taking remaining x pct x 100
MgrCatchUpWhole(partners, i, pd, rem, pct) ==
    IF i > Len(partners) THEN [pd |-> pd, rem |-> rem]
    ELSE LET p == partners[i]
         IN  IF p.partner_type = "general"
             THEN LET amount == DMul(rem, DMul(pct, Whole(100)))
                  IN  MgrCatchUpWhole(partners, i + 1,
                          [pd EXCEPT ![p.partner_id] = DAdd(@, amount)],
                          DSub(rem, amount), pct)
             ELSE MgrCatchUpWhole(partners, i + 1, pd, rem, pct)

RECURSIVE MgrCatchUp(_, _, _, _, _)
\* the catch_up branch, from partner i on
MgrCatchUp(partners, i, pd, rem, pct) ==
    IF i > Len(partners) THEN [pd |-> pd, rem |-> rem]
    ELSE LET p == partners[i]
         IN  IF p.partner_type = "general"
             THEN LET amount == DMul(rem, pct)
                  IN  MgrCatchUp(partners, i + 1,
                          [pd EXCEPT ![p.partner_id] = DAdd(@, amount)],
                          DSub(rem, amount), pct)
             ELSE MgrCatchUp(partners, i + 1, pd, rem, pct)

RECURSIVE MgrPromote(_, _, _, _, _)
\* the promote branch, from partner i on
MgrPromote(partners, i, pd, rem, pct) ==
    IF i > Len(partners) THEN [pd |-> pd, rem |-> rem]
    ELSE LET p == partners[i]
         IN  IF p.receives_promote
             THEN LET amount == DMul(rem, pct)
                  IN  MgrPromote(partners, i + 1,
                          [pd EXCEPT ![p.partner_id] = DAdd(@, amount)],
                          DSub(rem, amount), pct)
             ELSE MgrPromote(partners, i + 1, pd, rem, pct)

RECURSIVE MgrProRata(_, _, _, _, _)
\* the pro_rata branch, from partner i on: remaining_proceeds is not written
MgrProRata(partners, i, pd, rem, total_interests) ==
    IF i > Len(partners) THEN [pd |-> pd, rem |-> rem]
    ELSE LET p     == partners[i]
             share == IF DGt(total_interests, DZero)
                      THEN DDiv(Whole(p.ownership_percentage), total_interests)
                      ELSE DZero
             dist  == DMul(rem, share)
         IN  MgrProRata(partners, i + 1,
                 [pd EXCEPT ![p.partner_id] = DAdd(@, dist)], rem, total_interests)

\* the body of "for step in waterfall_steps" up to the break test
MgrStep(partners, pd, rem, step) ==
    CASE step.type = "return_of_capital" -> MgrReturnOfCapital(partners, 1, pd, rem)
      [] step.type = "preferred_return" ->
             MgrPreferredReturn(partners, 1, pd, rem, Cents(step.rate))
      [] step.type = "catch_up" ->
             MgrCatchUp(partners, 1, pd, rem, DDiv(Whole(step.percentage), Whole(100)))
      [] step.type = "promote" ->
             MgrPromote(partners, 1, pd, rem, DDiv(Whole(step.percentage), Whole(100)))
      [] step.type = "pro_rata" ->
             MgrProRata(partners, 1, pd, rem, SumOwnership(partners))
      [] OTHER -> [pd |-> pd, rem |-> rem]

\* "if remaining_proceeds <= 0: break" at the end of a step
MgrBreaks(rem) == DLe(rem, DZero)

RECURSIVE MgrLoop(_, _, _, _, _)
\* "for step in waterfall_steps", from step i on
MgrLoop(partners, pd, rem, steps, i) ==
    IF i > Len(steps) THEN [pd |-> pd, rem |-> rem]
    ELSE LET r == MgrStep(partners, pd, rem, steps[i])
         IN  IF MgrBreaks(r.rem) THEN r
             ELSE MgrLoop(partners, r.pd, r.rem, steps, i + 1)

\* _model_liquidation_distribution(partners, agreement_terms, asset_values) with
\* distribution_waterfall = steps and total_fair_market_value = total (cents)
ModelLiquidationDistribution(partners, steps, total) ==
    LET r == MgrLoop(partners, ZeroMap(partners), Cents(total), steps, 1)
    IN  [total_proceeds |-> Cents(total),
         partner_distributions |-> r.pd,
         waterfall_steps_processed |-> Len(steps),
         remaining_proceeds |-> r.rem]

----------------------------------------------------------------------------
(* tax_calculations.calculate_liquidation_proceeds                         *)

RECURSIVE UtilReturnOfCapital(_, _, _, _)
\* the return_of_capital branch, from partner i on
UtilReturnOfCapital(partners, i, pd, rem) ==
    IF i > Len(partners) \/ DLe(rem, DZero) THEN [pd |-> pd, rem |-> rem]
    ELSE LET p          == partners[i]
             unreturned == DSub(Cents(p.capital_contributed), pd[p.partner_id])
         IN  IF DGt(unreturned, DZero)
             THEN LET dist == DMin(unreturned, rem)
                  IN  UtilReturnOfCapital(partners, i + 1,
                          [pd EXCEPT ![p.partner_id] = DAdd(@, dist)],
                          DSub(rem, dist))
             ELSE UtilReturnOfCapital(partners, i + 1, pd, rem)

RECURSIVE UtilPreferredReturn(_, _, _, _, _)
\* the preferred_return branch, from partner i on
UtilPreferredReturn(partners, i, pd, rem, rate) ==
    IF i > Len(partners) \/ DLe(rem, DZero) THEN [pd |-> pd, rem |-> rem]
    ELSE LET p == partners[i]
         IN  IF p.receives_preferred_return
             THEN LET preferred == DMul(Cents(p.capital_contributed), rate)
                      dist      == DMin(preferred, rem)
                  IN  UtilPreferredReturn(partners, i + 1,
                          [pd EXCEPT ![p.partner_id] = DAdd(@, dist)],
                          DSub(rem, dist), rate)
             ELSE UtilPreferredReturn(partners, i + 1, pd, rem, rate)

RECURSIVE UtilProRataShares(_, _, _, _, _)
\* the partner loop of the pro_rata branch (total_ownership > 0), from partner i on
UtilProRataShares(partners, i, pd, rem, total_ownership) ==
    IF i > Len(partners) THEN pd
    ELSE LET p    == partners[i]
             dist == DMul(rem, DDiv(Whole(p.ownership_percentage), total_ownership))
         IN  UtilProRataShares(partners, i + 1,
                 [pd EXCEPT ![p.partner_id] = DAdd(@, dist)], rem, total_ownership)

\* the pro_rata branch: remaining_proceeds is zeroed when total_ownership > 0
UtilProRata(partners, pd, rem) ==
    LET total_ownership == SumOwnership(partners)
    IN  IF DGt(total_ownership, DZero)
        THEN [pd |-> UtilProRataShares(partners, 1, pd, rem, total_ownership),
              rem |-> DZero]
        ELSE [pd |-> pd, rem |-> rem]

\* the body of "for step in waterfall_steps" after the break test
UtilStep(partners, pd, rem, step) ==
    CASE step.type = "return_of_capital" -> UtilReturnOfCapital(partners, 1, pd, rem)
      [] step.type = "preferred_return" ->
             UtilPreferredReturn(partners, 1, pd, rem, Cents(step.rate))
      [] step.type = "pro_rata" -> UtilProRata(partners, pd, rem)
      [] OTHER -> [pd |-> pd, rem |-> rem]

\* "Round to penny precision": every entry quantized with ROUND_HALF_UP
UtilRound(pd) == [id \in DOMAIN pd |-> QuantizeHalfUp(pd[id])]

RECURSIVE UtilLoop(_, _, _, _, _)
\* "for step in waterfall_steps", from step i on
UtilLoop(partners, pd, rem, steps, i) ==
    IF i > Len(steps) \/ DLe(rem, DZero) THEN [pd |-> pd, rem |-> rem]
    ELSE LET r == UtilStep(partners, pd, rem, steps[i])
         IN  UtilLoop(partners, r.pd, r.rem, steps, i + 1)

\* calculate_liquidation_proceeds(total_proceeds, waterfall_steps, partners)
CalculateLiquidationProceeds(total, steps, partners) ==
    UtilRound(UtilLoop(partners, ZeroMap(partners), Cents(total), steps, 1).pd)

----------------------------------------------------------------------------
(* Allocation solver and compliance validator                              *)

\* the keys of a dict built by iterating over partners, in insertion order
PartnerKeys(partners) == [i \in 1..Len(partners) |-> partners[i].partner_id]

RECURSIVE SumValuesFrom(_, _, _, _)
\* the running sum acc after adding the values of the keys from position i on
SumValuesFrom(d, keys, i, acc) ==
    IF i > Len(keys) THEN acc ELSE SumValuesFrom(d, keys, i + 1, DAdd(acc, d[keys[i]]))

\* sum(d.values()), the dict's keys in insertion order
SumValues(d, keys) == SumValuesFrom(d, keys, 1, DZero)

\* self.precision = Decimal('0.01')
Precision == Cents(1)

\* d.get(key, Decimal('0'))
GetOrZero(d, key) == IF key \in DOMAIN d THEN d[key] ELSE DZero

\* Decimal(str(partner.get("current_capital_balance", 0)))
CurrentCapitalBalance(p) ==
    IF "current_capital_balance" \in DOMAIN p THEN Cents(p.current_capital_balance)
    ELSE DZero

\* mutant of Mismatch: a difference of exactly one cent counts as a mismatch
MismatchOrEqual(total_allocations, net_income) ==
    ~DLt(DAbs(DSub(total_allocations, net_income)), Cents(1))

\* manager: required_allocations after the "for partner in partners" loop
MgrRawAllocations(partners, target_balances) ==
    [id \in {partners[i].partner_id : i \in 1..Len(partners)} |->
        LET p == CHOOSE q \in {partners[i] : i \in 1..Len(partners)} : q.partner_id = id
        IN  QuantizeHalfEven(DSub(GetOrZero(target_balances, id),
                                  CurrentCapitalBalance(p)))]

\* the reconciliation test: abs(total_allocations - net_income) > 0.01
Mismatch(total_allocations, net_income) ==
    DGt(DAbs(DSub(total_allocations, net_income)), Precision)

\* CapitalAccountManager._calculate_required_allocations
MgrRequiredAllocations(partners, target_balances, net_income) ==
    LET raw   == MgrRawAllocations(partners, target_balances)
        total == SumValues(raw, PartnerKeys(partners))
    IN  IF Mismatch(total, net_income) /\ total # DZero
        THEN LET adjustment_factor == DDiv(net_income, total)
             IN  [id \in DOMAIN raw |-> QuantizeHalfEven(DMul(raw[id], adjustment_factor))]
        ELSE raw

\* utility: target_allocations after the "for partner in partners" loop
UtilRawAllocations(partners, liquidation_proceeds, current_balances) ==
    [id \in {partners[i].partner_id : i \in 1..Len(partners)} |->
        QuantizeHalfUp(DSub(GetOrZero(liquidation_proceeds, id),
                            GetOrZero(current_balances, id)))]

\* tax_calculations.calculate_target_allocations
UtilTargetAllocations(partners, net_income, liquidation_proceeds, current_balances) ==
    LET raw   == UtilRawAllocations(partners, liquidation_proceeds, current_balances)
        total == SumValues(raw, PartnerKeys(partners))
    IN  IF Mismatch(total, net_income) /\ total # DZero
        THEN LET adjustment_factor == DDiv(net_income, total)
             IN  [id \in DOMAIN raw |-> QuantizeHalfUp(DMul(raw[id], adjustment_factor))]
        ELSE raw

\* CapitalAccountManager._calculate_target_balances
MgrTargetBalances(partners, liquidation_analysis) ==
    [id \in {partners[i].partner_id : i \in 1..Len(partners)} |->
        QuantizeHalfEven(liquidation_analysis.partner_distributions[id])]

\* mutant of MgrDeficitUnprotected: a zero balance counts as a deficit
MgrDeficitUnprotectedOrZero(balance, has_dro, has_qio) ==
    DLe(balance, DZero) /\ ~has_dro /\ ~has_qio

\* "balance < 0 and not has_dro and not has_qio" of the manager's loop
MgrDeficitUnprotected(balance, has_dro, has_qio) ==
    DLt(balance, DZero) /\ ~has_dro /\ ~has_qio

RECURSIVE MgrDeficitLoop(_, _, _, _, _, _)
\* "for partner_id, balance in target_balances.items()", from key i on:
\* the value of compliance_check["substantial_economic_effect"]
MgrDeficitLoop(target_balances, keys, i, has_dro, has_qio, see) ==
    IF i > Len(keys) THEN see
    ELSE MgrDeficitLoop(target_balances, keys, i + 1, has_dro, has_qio,
            IF MgrDeficitUnprotected(target_balances[keys[i]], has_dro, has_qio)
            THEN FALSE ELSE see)

\* mutant of MgrValidateCompliance: the deficit restoration flag follows the
\* substantial economic effect verdict instead of the agreement's provisions
MgrValidateComplianceTied(allocations, agreement_terms, target_balances, keys) ==
    LET has_dro == agreement_terms.has_deficit_restoration_obligation
        has_qio == agreement_terms.has_qualified_income_offset
        see     == MgrDeficitLoop(target_balances, keys, 1, has_dro, has_qio, TRUE)
    IN  [substantial_economic_effect |-> see,
         capital_account_maintenance |-> TRUE,
         liquidation_consistency |-> TRUE,
         deficit_restoration_obligation |-> see]

\* CapitalAccountManager._validate_allocations_compliance
MgrValidateCompliance(allocations, agreement_terms, target_balances, keys) ==
    LET has_dro == agreement_terms.has_deficit_restoration_obligation
        has_qio == agreement_terms.has_qualified_income_offset
    IN  [substantial_economic_effect |->
             MgrDeficitLoop(target_balances, keys, 1, has_dro, has_qio, TRUE),
         capital_account_maintenance |-> TRUE,
         liquidation_consistency |-> TRUE,
         deficit_restoration_obligation |-> (has_dro \/ has_qio)]

\* mutant of UtilDeficitUnprotected: a qualified income offset gives no
\* protection
UtilDeficitUnprotectedNoOffset(balance, has_dro, has_qio) ==
    DLt(balance, DZero) /\ ~has_dro

\* "balance < 0 and not (has_dro or has_qio)" of the utility's loop
UtilDeficitUnprotected(balance, has_dro, has_qio) ==
    DLt(balance, DZero) /\ ~(has_dro \/ has_qio)

RECURSIVE UtilDeficitLoop(_, _, _, _, _)
\* "for partner_id, balance in capital_accounts.items()" with its break, from
\* key i on: the value of has_unprotected_deficit
UtilDeficitLoop(capital_accounts, keys, i, has_dro, has_qio) ==
    IF i > Len(keys) THEN FALSE
    ELSE IF UtilDeficitUnprotected(capital_accounts[keys[i]], has_dro, has_qio) THEN TRUE
    ELSE UtilDeficitLoop(capital_accounts, keys, i + 1, has_dro, has_qio)

\* tax_calculations.validate_substantial_economic_effect
UtilValidateSEE(allocations, capital_accounts, partnership_agreement, keys) ==
    LET has_dro == partnership_agreement.has_deficit_restoration_obligation
        has_qio == partnership_agreement.has_qualified_income_offset
    IN  [capital_account_maintenance |-> TRUE,
         liquidation_consistency |-> TRUE,
         deficit_restoration |-> (has_dro \/ has_qio),
         substantial_economic_effect |->
             ~UtilDeficitLoop(capital_accounts, keys, 1, has_dro, has_qio)]

----------------------------------------------------------------------------
(* tax_calculations.calculate_section_704b_balance                         *)

\* a Decimal given in thousandths
Mills(n) == Strip(n, -3)

\* mutant of Section704bBalance: every term is rounded to the cent before it
\* enters the sum
Section704bBalanceTermwise(beginning_balance, contributions, distributions, income_allocations, loss_allocations, other_adjustments) ==
    QuantizeHalfUp(
        DAdd(DSub(DAdd(DSub(DAdd(QuantizeHalfUp(beginning_balance),
                                 QuantizeHalfUp(contributions)),
                            QuantizeHalfUp(distributions)),
                       QuantizeHalfUp(income_allocations)),
                  QuantizeHalfUp(loss_allocations)),
             QuantizeHalfUp(other_adjustments)))

\* calculate_section_704b_balance: the chain of additions and subtractions,
\* left to right, then one quantize with ROUND_HALF_UP
Section704bBalance(beginning_balance, contributions, distributions, income_allocations, loss_allocations, other_adjustments) ==
    QuantizeHalfUp(
        DAdd(DSub(DAdd(DSub(DAdd(beginning_balance, contributions), distributions),
                       income_allocations),
                  loss_allocations),
             other_adjustments))

----------------------------------------------------------------------------
(* tax_calculations.calculate_section_754_adjustment                       *)

RECURSIVE SumFmvFrom(_, _, _)
\* the running sum acc after adding the fair market value of the assets from i on
SumFmvFrom(assets, i, acc) ==
    IF i > Len(assets) THEN acc
    ELSE SumFmvFrom(assets, i + 1, DAdd(acc, Whole(assets[i].fair_market_value)))

\* sum(Decimal(str(asset.get("fair_market_value", 0))) for asset in partnership_assets)
SumFmv(assets) == SumFmvFrom(assets, 1, DZero)

\* the entry of asset_adjustments written for one asset
AssetAdjustment(asset, total_adjustment, total_fmv, transferred_interest) ==
    LET proportion       == DDiv(Whole(asset.fair_market_value), total_fmv)
        asset_adjustment == DMul(DMul(total_adjustment, proportion), transferred_interest)
    IN  [basis_adjustment |-> QuantizeHalfEven(asset_adjustment),
         new_basis |-> QuantizeHalfEven(DAdd(Cents(asset.tax_basis), asset_adjustment))]

\* calculate_section_754_adjustment: total_adjustment and asset_adjustments of
\* the returned dict
Section754Adjustment(partnership_assets, transferred_interest, purchase_price, inside_basis) ==
    LET total_adjustment == DSub(purchase_price, inside_basis)
        total_fmv        == SumFmv(partnership_assets)
        ids == {partnership_assets[i].asset_id : i \in DOMAIN partnership_assets}
    IN  IF total_adjustment = DZero
        THEN [total_adjustment |-> DZero, asset_adjustments |-> << >>]
        ELSE [total_adjustment |-> QuantizeHalfEven(total_adjustment),
              asset_adjustments |->
                  IF DGt(total_fmv, DZero)
                  THEN [id \in ids |->
                          LET asset == CHOOSE a \in {partnership_assets[i] :
                                                       i \in DOMAIN partnership_assets} :
                                           a.asset_id = id
                          IN  AssetAdjustment(asset, total_adjustment, total_fmv,
                                              transferred_interest)]
                  ELSE << >>]

----------------------------------------------------------------------------
(* State                                                                   *)

VARIABLES
    partners,               \* the partners list of the call
    total_proceeds,         \* total proceeds of the call, in cents
    waterfall_steps,        \* the step list, in the specifications that pass it whole
    steps_len,              \* len(waterfall_steps)
    steps_done,             \* iterations of "for step in waterfall_steps" completed
    step,                   \* the step dict of the last completed iteration
    partner_distributions,  \* partner_distributions / partner_proceeds
    remaining_proceeds,     \* remaining_proceeds
    target_balances,        \* target_balances / liquidation_proceeds / capital_accounts
    net_income,             \* net_income, in cents
    agreement_terms,        \* agreement_terms / partnership_agreement
    pc,                     \* "loop": at the head of the step loop; "break";
                            \* "call": before a call; "returned"
    result,                 \* the returned value
    runs,                   \* the completed calls on one manager instance:
                            \* the asset value and the result of each
    args,                   \* the arguments of a call of a stand-alone function
    trace                   \* the loop iterations of the call so far: the step,
                            \* the distributions and the pool before and after

vars == <<partners, total_proceeds, waterfall_steps, steps_len, steps_done, step,
          partner_distributions, remaining_proceeds, target_balances, net_income,
          agreement_terms, pc, result, runs, args, trace>>

\* the inputs of a call: no action writes them
inputs == <<partners, total_proceeds, waterfall_steps, steps_len, target_balances,
            net_income, agreement_terms, args>>

\* the locals of the step loop
locals == <<steps_done, step, partner_distributions, remaining_proceeds>>

NoStep == [type |-> "none", rate |-> 0, percentage |-> 0]

NoResult == [returned |-> FALSE]

NoTerms == [has_deficit_restoration_obligation |-> FALSE,
            has_qualified_income_offset |-> FALSE]

\* the step loop has not been entered
NoLoop ==
    /\ steps_len = 0
    /\ steps_done = 0
    /\ step = NoStep
    /\ partner_distributions = << >>
    /\ remaining_proceeds = DZero

\* no solver or validator input
NoSolverInput ==
    /\ target_balances = << >>
    /\ net_income = 0
    /\ agreement_terms = NoTerms

----------------------------------------------------------------------------
(* The waterfall, one loop iteration at a time.  The step list is read one *)
(* element per iteration: its length is fixed at the start and each        *)
(* element is chosen when the loop reaches it.                             *)

\* the state after the accumulators are initialised (manager lines 285-292,
\* utility lines 88-89), for any call
WaterfallInit ==
    /\ partners \in PartnerLists
    /\ total_proceeds \in (-1)..MaxProceeds
    /\ waterfall_steps = << >>
    /\ steps_len \in 0..MaxSteps
    /\ steps_done = 0
    /\ step = NoStep
    /\ partner_distributions = ZeroMap(partners)
    /\ remaining_proceeds = Cents(total_proceeds)
    /\ NoSolverInput
    /\ pc = "loop"
    /\ result = NoResult
    /\ runs = << >>
    /\ trace = << >>
    /\ args = << >>

\* one iteration of the manager's step loop, with its break test
MgrProcessStep ==
    /\ pc = "loop"
    /\ steps_done < steps_len
    /\ \E s \in WaterfallSteps :
         LET r == MgrStep(partners, partner_distributions, remaining_proceeds, s)
         IN  /\ step' = s
             /\ partner_distributions' = r.pd
             /\ remaining_proceeds' = r.rem
             /\ pc' = IF MgrBreaks(r.rem) THEN "break" ELSE "loop"
    /\ steps_done' = steps_done + 1
    /\ UNCHANGED <<inputs, runs, trace, result>>

\* the manager's return statement
MgrReturn ==
    /\ pc = "break" \/ (pc = "loop" /\ steps_done = steps_len)
    /\ result' = [returned |-> TRUE,
                  total_proceeds |-> Cents(total_proceeds),
                  partner_distributions |-> partner_distributions,
                  waterfall_steps_processed |-> steps_len,
                  remaining_proceeds |-> remaining_proceeds]
    /\ pc' = "returned"
    /\ UNCHANGED <<inputs, runs, trace, locals>>

Init == WaterfallInit

Next == MgrProcessStep \/ MgrReturn

\* CapitalAccountManager._model_liquidation_distribution
Spec == Init /\ [][Next]_vars

\* one iteration of the utility's step loop (entered only while remaining > 0)
UtilProcessStep ==
    /\ pc = "loop"
    /\ steps_done < steps_len
    /\ DGt(remaining_proceeds, DZero)
    /\ \E s \in WaterfallSteps :
         LET r == UtilStep(partners, partner_distributions, remaining_proceeds, s)
         IN  /\ step' = s
             /\ partner_distributions' = r.pd
             /\ remaining_proceeds' = r.rem
    /\ steps_done' = steps_done + 1
    /\ UNCHANGED <<inputs, runs, trace, pc, result>>

\* the utility's exit from the loop, rounding and return
UtilReturn ==
    /\ pc = "loop"
    /\ steps_done = steps_len \/ DLe(remaining_proceeds, DZero)
    /\ partner_distributions' = UtilRound(partner_distributions)
    /\ result' = [returned |-> TRUE,
                  partner_proceeds |-> UtilRound(partner_distributions)]
    /\ pc' = "returned"
    /\ UNCHANGED <<inputs, runs, trace, steps_done, step, remaining_proceeds>>

UtilNext == UtilProcessStep \/ UtilReturn

\* tax_calculations.calculate_liquidation_proceeds
SpecUtil == WaterfallInit /\ [][UtilNext]_vars

----------------------------------------------------------------------------
(* The allocation solver as a function of its inputs                       *)

\* largest |current_capital_balance| and |target balance|, in cents
MaxBalance == 2

\* largest |net_income|, in cents
MaxIncome == 5

Balances == (-MaxBalance)..MaxBalance

\* partner dicts as the solver reads them
SolverPartnerLists ==
    { <<[partner_id |-> PartnerIds[1], current_capital_balance |-> a],
        [partner_id |-> PartnerIds[2], current_capital_balance |-> b]>>
      : a \in Balances, b \in Balances }

\* balance maps in whole cents
BalanceMaps ==
    { [id \in {PartnerIds[1], PartnerIds[2]} |->
          Cents(IF id = PartnerIds[1] THEN a ELSE b)]
      : a \in Balances, b \in Balances }

\* the current_balances argument holding the partners' current_capital_balance:
\* an entry for every partner that has one
CurrentBalances(ps) ==
    [id \in {ps[i].partner_id : i \in {k \in 1..Len(ps) :
                                         "current_capital_balance" \in DOMAIN ps[k]}} |->
        LET p == CHOOSE q \in {ps[i] : i \in 1..Len(ps)} : q.partner_id = id
        IN  Cents(p.current_capital_balance)]

SolverInit ==
    /\ partners \in SolverPartnerLists
    /\ target_balances \in BalanceMaps
    /\ net_income \in (-MaxIncome)..MaxIncome
    /\ agreement_terms = NoTerms
    /\ total_proceeds = 0
    /\ waterfall_steps = << >>
    /\ NoLoop
    /\ pc = "call"
    /\ result = NoResult
    /\ runs = << >>
    /\ trace = << >>
    /\ args = << >>

\* a call of CapitalAccountManager._calculate_required_allocations: it has no
\* raise statement and returns the allocation dict
MgrSolve ==
    /\ pc = "call"
    /\ result' = [returned |-> TRUE, fn |-> "manager", raised |-> FALSE,
                  required_allocations |->
                      MgrRequiredAllocations(partners, target_balances, Cents(net_income))]
    /\ pc' = "returned"
    /\ UNCHANGED <<inputs, runs, trace, locals>>

\* a call of tax_calculations.calculate_target_allocations: it has no raise
\* statement and returns the allocation dict
UtilSolve ==
    /\ pc = "call"
    /\ result' = [returned |-> TRUE, fn |-> "utility", raised |-> FALSE,
                  required_allocations |->
                      UtilTargetAllocations(partners, Cents(net_income), target_balances,
                                            CurrentBalances(partners))]
    /\ pc' = "returned"
    /\ UNCHANGED <<inputs, runs, trace, locals>>

SolverNext == MgrSolve \/ UtilSolve

SpecSolver == SolverInit /\ [][SolverNext]_vars

----------------------------------------------------------------------------
(* The compliance validators as functions of their inputs                  *)

AgreementTerms ==
    { [has_deficit_restoration_obligation |-> d, has_qualified_income_offset |-> q]
      : d \in BOOLEAN, q \in BOOLEAN }

ComplianceInit ==
    /\ partners = << >>
    /\ target_balances \in BalanceMaps
    /\ agreement_terms \in AgreementTerms
    /\ net_income = 0
    /\ total_proceeds = 0
    /\ waterfall_steps = << >>
    /\ NoLoop
    /\ pc = "call"
    /\ result = NoResult
    /\ runs = << >>
    /\ trace = << >>
    /\ args = << >>

\* a call of CapitalAccountManager._validate_allocations_compliance
MgrValidate ==
    /\ pc = "call"
    /\ result' = [returned |-> TRUE, fn |-> "manager",
                  compliance_check |->
                      MgrValidateCompliance(target_balances, agreement_terms,
                                            target_balances, PartnerIds)]
    /\ pc' = "returned"
    /\ UNCHANGED <<inputs, runs, trace, locals>>

\* a call of tax_calculations.validate_substantial_economic_effect
UtilValidate ==
    /\ pc = "call"
    /\ result' = [returned |-> TRUE, fn |-> "utility",
                  compliance_check |->
                      UtilValidateSEE(target_balances, target_balances,
                                      agreement_terms, PartnerIds)]
    /\ pc' = "returned"
    /\ UNCHANGED <<inputs, runs, trace, locals>>

ComplianceNext == MgrValidate \/ UtilValidate

SpecCompliance == ComplianceInit /\ [][ComplianceNext]_vars
----------------------------------------------------------------------------
(* Two calls of a waterfall that differ in one partner's capital           *)

\* largest raise of capital_contributed, in cents
MaxRaise == 1

\* partner dicts of the comparison: a limited partner with a preferred return
\* or a general partner with a promote
ComparedPartnerDicts(id) ==
    { [partner_id |-> id, partner_type |-> r[1], receives_preferred_return |-> r[2],
       receives_promote |-> r[3], capital_contributed |-> c, ownership_percentage |-> o]
      : r \in {<<"limited", TRUE, FALSE>>, <<"general", FALSE, TRUE>>},
        c \in 0..MaxCapital, o \in {0, 1} }

ComparedPartnerLists ==
    { <<a, b>> : a \in ComparedPartnerDicts(PartnerIds[1]),
                 b \in ComparedPartnerDicts(PartnerIds[2]) }

\* step lists of length 1..MaxSteps
StepLists ==
    UNION { [1..n -> WaterfallSteps] : n \in 1..MaxSteps }

\* the partners list with partner k's capital_contributed raised by d cents
RaiseCapital(ps, k, d) ==
    [ps EXCEPT ![k].capital_contributed = @ + d]

\* manager: what partner id is paid by step j of the list (zero when the loop
\* has broken before step j)
MgrStepAmount(ps, steps, total, j, id) ==
    LET before == MgrLoop(ps, ZeroMap(ps), Cents(total), SubSeq(steps, 1, j - 1), 1)
    IN  IF j > 1 /\ MgrBreaks(before.rem) THEN DZero
        ELSE DSub(MgrStep(ps, before.pd, before.rem, steps[j]).pd[id], before.pd[id])

\* utility: what partner id is paid by step j of the list (zero when the loop
\* has broken before step j)
UtilStepAmount(ps, steps, total, j, id) ==
    LET before == UtilLoop(ps, ZeroMap(ps), Cents(total), SubSeq(steps, 1, j - 1), 1)
    IN  IF DLe(before.rem, DZero) THEN DZero
        ELSE DSub(UtilStep(ps, before.pd, before.rem, steps[j]).pd[id], before.pd[id])

MonoInit ==
    /\ partners \in ComparedPartnerLists
    /\ total_proceeds \in (-1)..MaxProceeds
    /\ waterfall_steps \in StepLists
    /\ \E j \in DOMAIN waterfall_steps : waterfall_steps[j].type = "return_of_capital"
    /\ steps_len = Len(waterfall_steps)
    /\ steps_done = 0
    /\ step = NoStep
    /\ partner_distributions = << >>
    /\ remaining_proceeds = DZero
    /\ NoSolverInput
    /\ pc = "call"
    /\ result = NoResult
    /\ runs = << >>
    /\ trace = << >>
    /\ args = << >>

\* the manager's waterfall run on the list and on the list with partner k's
\* capital raised; the amounts partner k is paid by return_of_capital step j
MgrRaiseCapital ==
    /\ pc = "call"
    /\ \E k \in DOMAIN partners, d \in 1..MaxRaise, j \in DOMAIN waterfall_steps :
         /\ waterfall_steps[j].type = "return_of_capital"
         /\ result' = [returned |-> TRUE, fn |-> "manager", partner |-> k,
                       raise |-> d, step_index |-> j,
                       amount |-> MgrStepAmount(partners, waterfall_steps,
                                      total_proceeds, j, partners[k].partner_id),
                       amount_raised |-> MgrStepAmount(RaiseCapital(partners, k, d),
                                      waterfall_steps, total_proceeds, j,
                                      partners[k].partner_id)]
    /\ pc' = "returned"
    /\ UNCHANGED <<inputs, runs, trace, locals>>

\* the same for the utility's waterfall
UtilRaiseCapital ==
    /\ pc = "call"
    /\ \E k \in DOMAIN partners, d \in 1..MaxRaise, j \in DOMAIN waterfall_steps :
         /\ waterfall_steps[j].type = "return_of_capital"
         /\ result' = [returned |-> TRUE, fn |-> "utility", partner |-> k,
                       raise |-> d, step_index |-> j,
                       amount |-> UtilStepAmount(partners, waterfall_steps,
                                      total_proceeds, j, partners[k].partner_id),
                       amount_raised |-> UtilStepAmount(RaiseCapital(partners, k, d),
                                      waterfall_steps, total_proceeds, j,
                                      partners[k].partner_id)]
    /\ pc' = "returned"
    /\ UNCHANGED <<inputs, runs, trace, locals>>

MonoNext == MgrRaiseCapital \/ UtilRaiseCapital

SpecMono == MonoInit /\ [][MonoNext]_vars

----------------------------------------------------------------------------
(* Repeated calls of calculate_target_allocations on one manager instance  *)

\* calls made on the instance
MaxRuns == 3

\* partners as the whole calculation reads them: a limited partner A and a
\* general partner B
RunPartnerLists ==
    { <<[partner_id |-> PartnerIds[1], partner_type |-> "limited",
         receives_preferred_return |-> TRUE, receives_promote |-> FALSE,
         capital_contributed |-> a, ownership_percentage |-> 1,
         current_capital_balance |-> 0],
        [partner_id |-> PartnerIds[2], partner_type |-> "general",
         receives_preferred_return |-> FALSE, receives_promote |-> TRUE,
         capital_contributed |-> b, ownership_percentage |-> 1,
         current_capital_balance |-> 1]>>
      : a \in {1, MaxCapital}, b \in {1, MaxCapital} }

\* asset_values["total_fair_market_value"] of a call, in cents
RunAssetValues == {1, MaxProceeds}

\* the accumulator as a call would find it had it been kept on the instance
CarriedDistributions(ps) ==
    IF partner_distributions = << >> THEN ZeroMap(ps) ELSE partner_distributions

\* "partner_distributions = {p["partner_id"]: Decimal('0') for p in partners}"
FreshDistributions(ps) == ZeroMap(ps)

RunsInit ==
    /\ partners \in RunPartnerLists
    /\ total_proceeds = 0
    /\ waterfall_steps \in StepLists
    /\ steps_len = Len(waterfall_steps)
    /\ steps_done = 0
    /\ step = NoStep
    /\ partner_distributions = << >>
    /\ remaining_proceeds = DZero
    /\ target_balances = << >>
    /\ net_income = MaxIncome
    /\ agreement_terms \in {NoTerms, [NoTerms EXCEPT !.has_qualified_income_offset = TRUE]}
    /\ pc = "idle"
    /\ result = NoResult
    /\ runs = << >>
    /\ trace = << >>
    /\ args = << >>

\* a call of calculate_target_allocations up to the head of the step loop
RunCall ==
    /\ pc = "idle"
    /\ Len(runs) < MaxRuns
    /\ \E v \in RunAssetValues :
         /\ total_proceeds' = v
         /\ remaining_proceeds' = Cents(v)
    /\ partner_distributions' = FreshDistributions(partners)
    /\ steps_done' = 0
    /\ step' = NoStep
    /\ target_balances' = << >>
    /\ result' = NoResult
    /\ pc' = "loop"
    /\ UNCHANGED <<partners, waterfall_steps, steps_len, net_income, agreement_terms,
                   runs, trace, args>>

\* one iteration of the step loop of the call
RunStep ==
    /\ pc = "loop"
    /\ steps_done < steps_len
    /\ LET r == MgrStep(partners, partner_distributions, remaining_proceeds,
                        waterfall_steps[steps_done + 1])
       IN  /\ step' = waterfall_steps[steps_done + 1]
           /\ partner_distributions' = r.pd
           /\ remaining_proceeds' = r.rem
           /\ pc' = IF MgrBreaks(r.rem) THEN "break" ELSE "loop"
    /\ steps_done' = steps_done + 1
    /\ UNCHANGED <<inputs, runs, trace, result>>

\* the rest of the call: the liquidation analysis is returned, the target
\* balances, the required allocations and the compliance check are computed
\* and the result is returned
RunReturn ==
    /\ pc = "break" \/ (pc = "loop" /\ steps_done = steps_len)
    /\ LET liquidation_analysis ==
               [total_proceeds |-> Cents(total_proceeds),
                partner_distributions |-> partner_distributions,
                waterfall_steps_processed |-> steps_len,
                remaining_proceeds |-> remaining_proceeds]
           targets == MgrTargetBalances(partners, liquidation_analysis)
           required == MgrRequiredAllocations(partners, targets, Cents(net_income))
           res == [returned |-> TRUE,
                   target_balances |-> targets,
                   required_allocations |-> required,
                   compliance_check |->
                       MgrValidateCompliance(required, agreement_terms, targets,
                                             PartnerKeys(partners)),
                   calculation_method |-> "target_capital_account",
                   waterfall_analysis |-> liquidation_analysis]
       IN  /\ target_balances' = targets
           /\ result' = res
           /\ runs' = Append(runs, [asset_values |-> total_proceeds, result |-> res])
    /\ pc' = "idle"
    /\ UNCHANGED <<partners, total_proceeds, waterfall_steps, steps_len, net_income,
                   agreement_terms, locals, trace, args>>

RunsNext == RunCall \/ RunStep \/ RunReturn

SpecRuns == RunsInit /\ [][RunsNext]_vars

----------------------------------------------------------------------------
(* calculate_target_allocations on partner fields as the caller supplies   *)
(* them: a number, a text that Decimal() cannot parse, or no field at all  *)

Value(n) == [kind |-> "value", cents |-> n]

Unparsable == [kind |-> "unparsable", cents |-> 0]

Missing == [kind |-> "missing", cents |-> 0]

\* Decimal(str(partner.get(field, 0))): the default 0 for a missing field,
\* decimal.InvalidOperation for a text that is not a number
ParseField(v) ==
    [raised |-> (v.kind = "unparsable"),
     value  |-> IF v.kind = "value" THEN Cents(v.cents) ELSE DZero]

RawPartnerLists ==
    { <<[partner_id |-> PartnerIds[1], partner_type |-> "limited",
         receives_preferred_return |-> TRUE, receives_promote |-> FALSE,
         capital_contributed |-> ca, ownership_percentage |-> 1,
         current_capital_balance |-> ba],
        [partner_id |-> PartnerIds[2], partner_type |-> "general",
         receives_preferred_return |-> FALSE, receives_promote |-> TRUE,
         capital_contributed |-> cb, ownership_percentage |-> 1,
         current_capital_balance |-> bb]>>
      : ca \in {Value(1), Value(MaxCapital), Unparsable, Missing},
        cb \in {Value(1), Value(MaxCapital), Unparsable, Missing},
        ba \in {Value(0), Unparsable, Missing},
        bb \in {Value(1), Unparsable, Missing} }

\* some partner field is missing or cannot be parsed
Malformed(ps) ==
    \E i \in DOMAIN ps :
        \/ ps[i].capital_contributed.kind # "value"
        \/ ps[i].current_capital_balance.kind # "value"

\* the partner dicts with every field that parses replaced by its amount in cents
ParsedPartners(ps) ==
    [i \in DOMAIN ps |->
        [ps[i] EXCEPT !.capital_contributed = ParseField(@).value.c * (10 ^ (ParseField(@).value.e + 2)),
                      !.current_capital_balance = ParseField(@).value.c * (10 ^ (ParseField(@).value.e + 2))]]

RECURSIVE MgrReturnOfCapitalRaw(_, _, _, _)
\* the return_of_capital branch on supplied fields, from partner i on
MgrReturnOfCapitalRaw(ps, i, pd, rem) ==
    IF i > Len(ps) THEN [pd |-> pd, rem |-> rem, raised |-> FALSE]
    ELSE LET p      == ps[i]
             parsed == ParseField(p.capital_contributed)
             dist   == DMin(parsed.value, rem)
             pd2    == [pd EXCEPT ![p.partner_id] = DAdd(@, dist)]
             rem2   == DSub(rem, dist)
         IN  IF parsed.raised THEN [pd |-> pd, rem |-> rem, raised |-> TRUE]
             ELSE IF DLe(rem2, DZero) THEN [pd |-> pd2, rem |-> rem2, raised |-> FALSE]
             ELSE MgrReturnOfCapitalRaw(ps, i + 1, pd2, rem2)

RECURSIVE MgrPreferredReturnRaw(_, _, _, _, _)
\* the preferred_return branch on supplied fields, from partner i on
MgrPreferredReturnRaw(ps, i, pd, rem, rate) ==
    IF i > Len(ps) THEN [pd |-> pd, rem |-> rem, raised |-> FALSE]
    ELSE LET p      == ps[i]
             parsed == ParseField(p.capital_contributed)
             dist   == DMin(DMul(parsed.value, rate), rem)
         IN  IF p.partner_type # "limited"
             THEN MgrPreferredReturnRaw(ps, i + 1, pd, rem, rate)
             ELSE IF parsed.raised THEN [pd |-> pd, rem |-> rem, raised |-> TRUE]
             ELSE MgrPreferredReturnRaw(ps, i + 1,
                      [pd EXCEPT ![p.partner_id] = DAdd(@, dist)], DSub(rem, dist), rate)

\* the body of "for step in waterfall_steps" on supplied fields
MgrStepRaw(ps, pd, rem, s) ==
    CASE s.type = "return_of_capital" -> MgrReturnOfCapitalRaw(ps, 1, pd, rem)
      [] s.type = "preferred_return" ->
             MgrPreferredReturnRaw(ps, 1, pd, rem, Cents(s.rate))
      [] OTHER -> [raised |-> FALSE] @@ MgrStep(ps, pd, rem, s)

\* _calculate_required_allocations raises at the first current_capital_balance
\* that cannot be parsed
SolverRaises(ps) ==
    \E i \in DOMAIN ps : ParseField(ps[i].current_capital_balance).raised

\* the partner dicts had the solver credited the allocation to the balance
PartnersCredited(ps, required_allocations) ==
    [i \in DOMAIN ps |->
        [ps[i] EXCEPT !.current_capital_balance =
            Value(InCents(DAdd(ParseField(@).value, required_allocations[ps[i].partner_id])))]]

\* the partner dicts after _calculate_required_allocations: the loop reads
\* them with partner["partner_id"] and partner.get(...) and assigns only to
\* its own required_allocations dict
PartnersAfterSolver(ps, required_allocations) == ps

\* the state after the accumulators are initialised; args keeps a copy of the
\* caller's inputs as they were at the call
RawInit ==
    /\ partners \in RawPartnerLists
    /\ total_proceeds \in {1, MaxProceeds}
    /\ waterfall_steps \in StepLists
    /\ steps_len = Len(waterfall_steps)
    /\ steps_done = 0
    /\ step = NoStep
    /\ partner_distributions = ZeroMap(partners)
    /\ remaining_proceeds = Cents(total_proceeds)
    /\ target_balances = << >>
    /\ net_income = MaxIncome
    /\ agreement_terms = NoTerms
    /\ pc = "loop"
    /\ result = NoResult
    /\ runs = << >>
    /\ trace = << >>
    /\ args = [partners |-> partners, distribution_waterfall |-> waterfall_steps,
               agreement_terms |-> agreement_terms, asset_values |-> total_proceeds,
               net_income |-> net_income]

\* one iteration of the step loop; an exception leaves the loop
RawStep ==
    /\ pc = "loop"
    /\ steps_done < steps_len
    /\ LET r == MgrStepRaw(partners, partner_distributions, remaining_proceeds,
                           waterfall_steps[steps_done + 1])
       IN  /\ step' = waterfall_steps[steps_done + 1]
           /\ partner_distributions' = r.pd
           /\ remaining_proceeds' = r.rem
           /\ pc' = IF r.raised THEN "raised"
                    ELSE IF MgrBreaks(r.rem) THEN "break" ELSE "loop"
    /\ steps_done' = steps_done + 1
    /\ UNCHANGED <<inputs, runs, trace, result>>

\* the rest of the call after the step loop: target balances, required
\* allocations (which may raise), compliance check, return
RawFinish ==
    /\ pc = "break" \/ (pc = "loop" /\ steps_done = steps_len)
    /\ LET liquidation_analysis ==
               [total_proceeds |-> Cents(total_proceeds),
                partner_distributions |-> partner_distributions,
                waterfall_steps_processed |-> steps_len,
                remaining_proceeds |-> remaining_proceeds]
           targets  == MgrTargetBalances(partners, liquidation_analysis)
           required == MgrRequiredAllocations(ParsedPartners(partners), targets,
                                              Cents(net_income))
       IN  /\ target_balances' = targets
           /\ IF SolverRaises(partners)
              THEN /\ pc' = "raised"
                   /\ UNCHANGED <<result, partners>>
              ELSE /\ pc' = "returned"
                   /\ partners' = PartnersAfterSolver(partners, required)
                   /\ result' = [returned |-> TRUE,
                                 target_balances |-> targets,
                                 required_allocations |-> required,
                                 compliance_check |->
                                     MgrValidateCompliance(required, agreement_terms,
                                         targets, PartnerKeys(partners)),
                                 calculation_method |-> "target_capital_account",
                                 waterfall_analysis |-> liquidation_analysis]
    /\ UNCHANGED <<total_proceeds, waterfall_steps, steps_len, net_income,
                   agreement_terms, args, runs, trace, locals>>

RawNext == RawStep \/ RawFinish

SpecRaw == RawInit /\ [][RawNext]_vars

----------------------------------------------------------------------------
(* Either waterfall with a record of every loop iteration                  *)

\* partners of the recorded runs: every role, ownership o
TracedPartnerDicts(id, o) ==
    { [partner_id |-> id, partner_type |-> r[1], receives_preferred_return |-> r[2],
       receives_promote |-> r[3], capital_contributed |-> c, ownership_percentage |-> o]
      : r \in PartnerRoles, c \in {0, 1, MaxCapital} }

\* both partners with ownership 1, or both with ownership 0
TracedPartnerLists ==
    UNION { { <<a, b>> : a \in TracedPartnerDicts(PartnerIds[1], o),
                         b \in TracedPartnerDicts(PartnerIds[2], o) }
            : o \in {0, 1} }

\* the step dicts of the recorded runs: also the percentages 0, 1 and 100
TracedSteps ==
    WaterfallSteps \cup
    { [type |-> t, rate |-> 0, percentage |-> pct]
      : t \in {"catch_up", "promote"}, pct \in {0, 1, 100} }

\* what one loop iteration leaves in the record
Iteration(s, before, pool_before, r) ==
    [step |-> s, before |-> before, after |-> r.pd,
     pool_before |-> pool_before, pool_after |-> r.rem]

TraceInit ==
    /\ partners \in TracedPartnerLists
    /\ total_proceeds \in {1, MaxProceeds}
    /\ waterfall_steps = << >>
    /\ steps_len = MaxSteps
    /\ steps_done = 0
    /\ step = NoStep
    /\ partner_distributions = ZeroMap(partners)
    /\ remaining_proceeds = Cents(total_proceeds)
    /\ NoSolverInput
    /\ pc = "loop"
    /\ result = NoResult
    /\ runs = << >>
    /\ args \in [fn : {"manager", "utility"}]
    /\ trace = << >>

\* one iteration of the manager's step loop, recorded
MgrTraceStep ==
    /\ args.fn = "manager"
    /\ pc = "loop"
    /\ steps_done < steps_len
    /\ \E s \in TracedSteps :
         LET r == MgrStep(partners, partner_distributions, remaining_proceeds, s)
         IN  /\ step' = s
             /\ partner_distributions' = r.pd
             /\ remaining_proceeds' = r.rem
             /\ pc' = IF MgrBreaks(r.rem) THEN "break" ELSE "loop"
             /\ trace' = Append(trace, Iteration(s, partner_distributions,
                                                 remaining_proceeds, r))
    /\ steps_done' = steps_done + 1
    /\ UNCHANGED <<inputs, runs, result>>

\* the manager's return statement
MgrTraceReturn ==
    /\ args.fn = "manager"
    /\ pc = "break" \/ (pc = "loop" /\ steps_done = steps_len)
    /\ result' = [returned |-> TRUE,
                  total_proceeds |-> Cents(total_proceeds),
                  partner_distributions |-> partner_distributions,
                  waterfall_steps_processed |-> steps_len,
                  remaining_proceeds |-> remaining_proceeds]
    /\ pc' = "returned"
    /\ UNCHANGED <<inputs, runs, trace, locals>>

\* one iteration of the utility's step loop, recorded
UtilTraceStep ==
    /\ args.fn = "utility"
    /\ pc = "loop"
    /\ steps_done < steps_len
    /\ DGt(remaining_proceeds, DZero)
    /\ \E s \in TracedSteps :
         LET r == UtilStep(partners, partner_distributions, remaining_proceeds, s)
         IN  /\ step' = s
             /\ partner_distributions' = r.pd
             /\ remaining_proceeds' = r.rem
             /\ trace' = Append(trace, Iteration(s, partner_distributions,
                                                 remaining_proceeds, r))
    /\ steps_done' = steps_done + 1
    /\ UNCHANGED <<inputs, runs, pc, result>>

\* the utility's exit from the loop, rounding and return
UtilTraceReturn ==
    /\ args.fn = "utility"
    /\ pc = "loop"
    /\ steps_done = steps_len \/ DLe(remaining_proceeds, DZero)
    /\ partner_distributions' = UtilRound(partner_distributions)
    /\ result' = [returned |-> TRUE,
                  partner_proceeds |-> UtilRound(partner_distributions)]
    /\ pc' = "returned"
    /\ UNCHANGED <<inputs, runs, trace, steps_done, step, remaining_proceeds>>

TraceNext == MgrTraceStep \/ MgrTraceReturn \/ UtilTraceStep \/ UtilTraceReturn

SpecTrace == TraceInit /\ [][TraceNext]_vars

----------------------------------------------------------------------------
(* The solvers on partial inputs: a partner without a current balance, a   *)
(* target map without the partner, balances that are no whole cents        *)

\* largest target balance, in half cents
MaxHalfCents == 4

\* a Decimal given in half cents
HalfCents(n) == Strip(5 * n, -3)

\* partner dicts with or without a current_capital_balance (whole cents)
PartialPartnerDicts(id) ==
    {[partner_id |-> id]}
    \cup {[partner_id |-> id, current_capital_balance |-> c] : c \in 0..1}

PartialPartnerLists ==
    { <<a, b>> : a \in PartialPartnerDicts(PartnerIds[1]),
                 b \in PartialPartnerDicts(PartnerIds[2]) }

\* target maps over any subset of the partner ids
PartialTargetMaps ==
    UNION { [D -> {HalfCents(n) : n \in 0..MaxHalfCents}]
            : D \in SUBSET {PartnerIds[1], PartnerIds[2]} }

PartialInit ==
    /\ partners \in PartialPartnerLists
    /\ target_balances \in PartialTargetMaps
    /\ net_income \in 0..MaxIncome
    /\ agreement_terms = NoTerms
    /\ total_proceeds = 0
    /\ waterfall_steps = << >>
    /\ NoLoop
    /\ pc = "call"
    /\ result = NoResult
    /\ runs = << >>
    /\ trace = << >>
    /\ args = << >>

\* _calculate_required_allocations and calculate_target_allocations on
\* partial inputs
SpecPartial == PartialInit /\ [][SolverNext]_vars

----------------------------------------------------------------------------
(* Stand-alone functions: one call each                                    *)

\* no partnership, waterfall, solver or manager state
OnlyArgs ==
    /\ partners = << >>
    /\ total_proceeds = 0
    /\ waterfall_steps = << >>
    /\ NoLoop
    /\ NoSolverInput
    /\ runs = << >>
    /\ trace = << >>

\* largest |argument| of calculate_section_704b_balance, in thousandths
MaxMills == 2

BalanceInit ==
    /\ OnlyArgs
    /\ args \in [{"beginning_balance", "contributions", "distributions",
                  "income_allocations", "loss_allocations", "other_adjustments"}
                 -> (-MaxMills)..MaxMills]
    /\ pc = "call"
    /\ result = NoResult

\* a call of calculate_section_704b_balance
CalculateBalance ==
    /\ pc = "call"
    /\ result' = [returned |-> TRUE,
                  ending_balance |->
                      Section704bBalance(Mills(args.beginning_balance),
                          Mills(args.contributions), Mills(args.distributions),
                          Mills(args.income_allocations), Mills(args.loss_allocations),
                          Mills(args.other_adjustments))]
    /\ pc' = "returned"
    /\ UNCHANGED <<inputs, runs, trace, locals>>

SpecBalance == BalanceInit /\ [][CalculateBalance]_vars

\* largest fair market value of an asset, in whole units
MaxFmv == 1

\* largest purchase price and inside basis, in cents
MaxPrice == 2

AssetIds == <<"x", "y">>

AssetDicts(id) ==
    { [asset_id |-> id, fair_market_value |-> f, tax_basis |-> b]
      : f \in 0..MaxFmv, b \in {0, 1} }

\* asset lists of one or two assets
AssetLists ==
    { <<a>> : a \in AssetDicts(AssetIds[1]) }
    \cup { <<a, b>> : a \in AssetDicts(AssetIds[1]), b \in AssetDicts(AssetIds[2]) }

AdjustmentInit ==
    /\ OnlyArgs
    /\ args \in [partnership_assets : AssetLists,
                 transferred_interest : {50, 100},
                 purchase_price : 0..MaxPrice,
                 inside_basis : 0..MaxPrice]
    /\ pc = "call"
    /\ result = NoResult

\* a call of calculate_section_754_adjustment
CalculateAdjustment ==
    /\ pc = "call"
    /\ result' = [returned |-> TRUE] @@
                 Section754Adjustment(args.partnership_assets,
                     Cents(args.transferred_interest), Cents(args.purchase_price),
                     Cents(args.inside_basis))
    /\ pc' = "returned"
    /\ UNCHANGED <<inputs, runs, trace, locals>>

SpecAdjustment == AdjustmentInit /\ [][CalculateAdjustment]_vars

----------------------------------------------------------------------------
(* PartnershipAgreementParser.parse_agreement, one stage at a time.  What  *)
(* the stages it calls do (the text found, the extraction results, an      *)
(* exception) is fixed in args at the call.  The document_id and the       *)
(* created_at of the result hold a fresh uuid and the clock and are left   *)
(* out of the result record.                                               *)

\* filenames whose lower-cased name ends in .pdf, .docx or .doc
SupportedFiles == {"Agreement.PDF", "agreement.docx"}

Filenames == SupportedFiles \cup {"agreement.txt"}

\* what a called stage does: it returns a value or raises an exception
Returns(v) == [raises |-> FALSE, value |-> v, text |-> ""]

Raises(msg) == [raises |-> TRUE, value |-> "", text |-> msg]

\* extraction results: confidence and data-richness weight, in hundredths
ExtractionResults == [confidence : {70, 80, 90}, weight : {50, 100}]

ExtractionLists ==
    {<< >>} \cup { <<a>> : a \in ExtractionResults }
            \cup { <<a, b>> : a \in ExtractionResults, b \in ExtractionResults }

RECURSIVE SumWeighted(_, _)
\* sum(weighted_confidences), in ten-thousandths, from result i on
SumWeighted(results, i) ==
    IF i > Len(results) THEN 0
    ELSE results[i].confidence * results[i].weight + SumWeighted(results, i + 1)

\* _calculate_confidence: the fraction num / den, in ten-thousandths
CalculateConfidence(results) ==
    IF results = << >> THEN [num |-> 0, den |-> 1]
    ELSE [num |-> SumWeighted(results, 1), den |-> Len(results)]

\* mutant of ParseStatus: a confidence of exactly 0.8 counts as completed
ParseStatusAtLeast(confidence_score) ==
    IF confidence_score.num >= 8000 * confidence_score.den
    THEN "completed" ELSE "requires_review"

\* "completed" if confidence_score > 0.8 else "requires_review"
ParseStatus(confidence_score) ==
    IF confidence_score.num > 8000 * confidence_score.den
    THEN "completed" ELSE "requires_review"

\* _extract_text: an unsupported file type raises ValueError, otherwise the
\* extractor's outcome
ExtractText(filename, extractor) ==
    IF filename \in SupportedFiles THEN extractor
    ELSE Raises("Unsupported file type")

ParseInit ==
    /\ OnlyArgs
    /\ args \in [filename : Filenames,
                 partnership_id : {"None", "p-1"},
                 extractor : {Returns(""), Returns("agreement text"),
                              Raises("PDF extraction failed")},
                 splitter : {Returns("chunks"), Raises("split failed")},
                 extraction : { Returns(l) : l \in ExtractionLists }
                              \cup {[raises |-> TRUE, value |-> << >>,
                                     text |-> "extraction failed"]},
                 consolidation : {Returns("consolidated"), Raises("consolidation failed")}]
    /\ pc = "extract_text"
    /\ result = NoResult

\* an exception raised inside the try block, on its way to the handler
Pending(msg) == [returned |-> FALSE, exception |-> msg]

\* a stage of the try block: it raises, or control moves to the next stage
Stage(at, outcome, next) ==
    /\ pc = at
    /\ IF outcome.raises
       THEN pc' = "except" /\ result' = Pending(outcome.text)
       ELSE pc' = next /\ UNCHANGED result
    /\ UNCHANGED <<inputs, runs, trace, locals>>

\* text_content = await self._extract_text(content, filename), and the test
\* "if not text_content: raise ValueError(...)"
ParseExtractText ==
    LET outcome == ExtractText(args.filename, args.extractor)
    IN  Stage("extract_text",
              IF ~outcome.raises /\ outcome.value = ""
              THEN Raises("No text content could be extracted from document")
              ELSE outcome,
              "split")

\* chunks = self._split_document(text_content)
ParseSplit == Stage("split", args.splitter, "extract_data")

\* extraction_results = await self._extract_partnership_data(chunks)
ParseExtractData == Stage("extract_data", args.extraction, "consolidate")

\* consolidated_data = self._consolidate_extractions(extraction_results)
ParseConsolidate == Stage("consolidate", args.consolidation, "build")

\* the confidence score, the result object and the return of the try block
ParseReturn ==
    /\ pc = "build"
    /\ LET confidence_score == CalculateConfidence(args.extraction.value)
       IN  result' = [returned |-> TRUE,
                      partnership_id |-> args.partnership_id,
                      filename |-> args.filename,
                      status |-> ParseStatus(confidence_score),
                      confidence_score |-> confidence_score,
                      extracted_data |-> args.consolidation.value,
                      raw_text |-> args.extractor.value,
                      error_message |-> "None"]
    /\ pc' = "returned"
    /\ UNCHANGED <<inputs, runs, trace, locals>>

\* "except Exception as e": the failed result is returned
ParseExcept ==
    /\ pc = "except"
    /\ result' = [returned |-> TRUE,
                  partnership_id |-> args.partnership_id,
                  filename |-> args.filename,
                  status |-> "failed",
                  confidence_score |-> [num |-> 0, den |-> 1],
                  extracted_data |-> << >>,
                  raw_text |-> "None",
                  error_message |-> result.exception]
    /\ pc' = "returned"
    /\ UNCHANGED <<inputs, runs, trace, locals>>

ParseNext ==
    \/ ParseExtractText
    \/ ParseSplit
    \/ ParseExtractData
    \/ ParseConsolidate
    \/ ParseReturn
    \/ ParseExcept

SpecParse == ParseInit /\ [][ParseNext]_vars

----------------------------------------------------------------------------
(* CapitalAccountManager.process_transaction                                *)

\* a key of transaction_data: absent, or present with a text
Absent == [present |-> FALSE, value |-> ""]

Present(v) == [present |-> TRUE, value |-> v]

\* the transaction types with a handler, and one without
HandledTypes == {"contribution", "distribution", "allocation", "revaluation"}

TransactionTypes == HandledTypes \cup {"transfer"}

\* transaction dates: a date, a timestamp with a Z suffix, a date that is not
\* in ISO format, and the empty text
TransactionDates == {"2024-01-15", "2024-01-15T10:30:00Z", "01/15/2024", ""}

\* the texts datetime.fromisoformat accepts
IsoTexts == {"2024-01-15", "2024-01-15T10:30:00+00:00"}

\* date_str.replace('Z', '+00:00')
ReplaceZ(date_str) ==
    IF date_str = "2024-01-15T10:30:00Z" THEN "2024-01-15T10:30:00+00:00" ELSE date_str

\* datetime.fromisoformat(text) raises ValueError
FromIsoformatRaises(text) == text \notin IsoTexts

\* largest |amount| of a transaction, in cents
MaxAmount == 1

\* transaction_data: amount is a number, a text Decimal() cannot parse, or
\* absent; revaluation_amount and partners are absent
TransactionData ==
    [transaction_type : {Absent} \cup {Present(t) : t \in TransactionTypes},
     partner_id       : {Absent, Present(PartnerIds[1])},
     amount           : {Missing, Unparsable} \cup {Value(n) : n \in (-MaxAmount)..MaxAmount},
     transaction_date : {Absent} \cup {Present(d) : d \in TransactionDates},
     allocation_type  : {Absent, Present("loss")}]

\* "for field in required_fields": the missing-field messages, in order
MissingFieldErrors(td) ==
    (IF td.transaction_type.present THEN << >>
     ELSE <<"Missing required field: transaction_type">>)
    \o (IF td.partner_id.present THEN << >>
        ELSE <<"Missing required field: partner_id">>)
    \o (IF td.amount.kind # "missing" THEN << >>
        ELSE <<"Missing required field: amount">>)
    \o (IF td.transaction_date.present THEN << >>
        ELSE <<"Missing required field: transaction_date">>)

\* the amount block: Decimal(str(...)) raises decimal.InvalidOperation, which
\* "except (ValueError, TypeError)" does not catch
AmountErrors(td) ==
    IF DLt(ParseField(td.amount).value, DZero)
       /\ ~(td.transaction_type.present /\ td.transaction_type.value = "distribution")
    THEN <<"Amount cannot be negative for this transaction type">>
    ELSE << >>

\* the date block: an absent or empty date is not parsed
DateErrors(td) ==
    IF td.transaction_date.present /\ td.transaction_date.value # ""
       /\ FromIsoformatRaises(ReplaceZ(td.transaction_date.value))
    THEN <<"Invalid date format">>
    ELSE << >>

\* CapitalAccountManager._validate_transaction_data
ValidateTransactionData(td) ==
    IF ParseField(td.amount).raised
    THEN [raises |-> TRUE, errors |-> << >>]
    ELSE [raises |-> FALSE,
          errors |-> MissingFieldErrors(td) \o AmountErrors(td) \o DateErrors(td)]

\* the values uuid.uuid4() may return
TransactionIds == {"uuid-1", "uuid-2"}

\* a call made by process_transaction and what it returned
Called(name, value) == [call |-> name, value |-> value]

TxInit ==
    /\ OnlyArgs
    /\ args \in TransactionData
    /\ pc = "validate"
    /\ result = NoResult

\* lines 83-88: the transaction id is drawn, the data is validated and a
\* ValueError is raised when there are messages
TxValidate ==
    /\ pc = "validate"
    /\ LET v == ValidateTransactionData(args)
       IN  IF v.raises
           THEN /\ pc' = "raised"
                /\ result' = [returned |-> FALSE, error |-> "InvalidOperation"]
           ELSE IF v.errors # << >>
           THEN /\ pc' = "raised"
                /\ result' = [returned |-> FALSE, error |-> "ValueError"]
           ELSE /\ pc' = "dispatch"
                /\ \E id \in TransactionIds :
                       result' = [returned |-> FALSE, transaction_id |-> id]
    /\ UNCHANGED <<inputs, runs, trace, locals>>

\* what the handler of a validated transaction finds
TxAmount == ParseField(args.amount).value

TxBalance(amount) == [id \in {args.partner_id.value} |-> amount]

\* the contribution branch: _process_contribution returns {partner_id: amount}
TxProcessContribution ==
    /\ pc = "dispatch"
    /\ args.transaction_type.value = "contribution"
    /\ trace' = Append(trace, Called("_process_contribution", TxBalance(TxAmount)))
    /\ pc' = "compliance"
    /\ UNCHANGED <<inputs, runs, result, locals>>

\* the distribution branch: _process_distribution returns {partner_id: -amount}
TxProcessDistribution ==
    /\ pc = "dispatch"
    /\ args.transaction_type.value = "distribution"
    /\ trace' = Append(trace, Called("_process_distribution", TxBalance(DNeg(TxAmount))))
    /\ pc' = "compliance"
    /\ UNCHANGED <<inputs, runs, result, locals>>

\* the allocation branch: _process_allocation returns the amount, negated
\* unless allocation_type is "income" (the default)
TxProcessAllocation ==
    /\ pc = "dispatch"
    /\ args.transaction_type.value = "allocation"
    /\ trace' = Append(trace,
                 Called("_process_allocation",
                        TxBalance(IF args.allocation_type.present THEN DNeg(TxAmount)
                                  ELSE TxAmount)))
    /\ pc' = "compliance"
    /\ UNCHANGED <<inputs, runs, result, locals>>

\* the revaluation branch: _process_revaluation with no partners returns {}
TxProcessRevaluation ==
    /\ pc = "dispatch"
    /\ args.transaction_type.value = "revaluation"
    /\ trace' = Append(trace, Called("_process_revaluation", << >>))
    /\ pc' = "compliance"
    /\ UNCHANGED <<inputs, runs, result, locals>>

\* the else branch: ValueError("Unknown transaction type: ...")
TxUnknownType ==
    /\ pc = "dispatch"
    /\ args.transaction_type.value \notin HandledTypes
    /\ pc' = "raised"
    /\ result' = [returned |-> FALSE, error |-> "ValueError"]
    /\ UNCHANGED <<inputs, runs, trace, locals>>

\* _check_compliance: the placeholder returns True
TxCheckCompliance ==
    /\ pc = "compliance"
    /\ trace' = Append(trace, Called("_check_compliance", TRUE))
    /\ pc' = "build"
    /\ UNCHANGED <<inputs, runs, result, locals>>

\* the return statement
TxReturn ==
    /\ pc = "build"
    /\ result' = [returned |-> TRUE,
                  transaction_id |-> result.transaction_id,
                  updated_balances |-> trace[1].value,
                  compliance_status |-> trace[2].value,
                  validation_messages |-> << >>]
    /\ pc' = "returned"
    /\ UNCHANGED <<inputs, runs, trace, locals>>

TxNext ==
    \/ TxValidate
    \/ TxProcessContribution
    \/ TxProcessDistribution
    \/ TxProcessAllocation
    \/ TxProcessRevaluation
    \/ TxUnknownType
    \/ TxCheckCompliance
    \/ TxReturn

SpecTx == TxInit /\ [][TxNext]_vars

----------------------------------------------------------------------------
(* Claims                                                                  *)

Keys == PartnerKeys(partners)

\* C1: in _model_liquidation_distribution, at every step boundary and in the
\* returned result, the sum of partner_distributions over all partners plus
\* remaining_proceeds equals total_proceeds exactly.
\* (Stated for the calls with positive proceeds, the ordinary ones.)
C1_Conservation ==
    total_proceeds > 0 =>
        /\ DAdd(SumValues(partner_distributions, Keys), remaining_proceeds)
               = Cents(total_proceeds)
        /\ pc = "returned" =>
              DAdd(SumValues(result.partner_distributions, Keys),
                   result.remaining_proceeds) = result.total_proceeds

\* C2: immediately after a pro_rata step has executed, remaining proceeds is
\* zero (the step consumes the whole pool).
\* (Stated for positive proceeds and positive total ownership.)
C2_ProRataConsumesPool ==
    ( /\ step.type = "pro_rata"
      /\ total_proceeds > 0
      /\ DGt(SumOwnership(partners), DZero) )
    => remaining_proceeds = DZero

\* C3: calculate_liquidation_proceeds with total_proceeds > 0 in whole cents and
\* positive total ownership: once a pro_rata step has run, the cent-rounded
\* amounts it returns sum to exactly total_proceeds.
C3_ProRataRoundedSum ==
    ( /\ pc = "returned"
      /\ total_proceeds > 0
      /\ step.type = "pro_rata"
      /\ DGt(SumOwnership(partners), DZero) )
    => SumValues(result.partner_proceeds, Keys) = Cents(total_proceeds)

\* C4: for total_proceeds <= 0 the waterfall distributor returns a distribution
\* of exactly zero for every partner.
C4_NonPositiveProceedsAllZero ==
    (pc = "returned" /\ total_proceeds <= 0)
    => \A id \in DOMAIN result.partner_distributions :
           result.partner_distributions[id] = DZero

\* the allocations before the reconciliation test, of the function that was called
RawOfCall ==
    IF result.fn = "manager"
    THEN MgrRawAllocations(partners, target_balances)
    ELSE UtilRawAllocations(partners, target_balances, CurrentBalances(partners))

\* the call found sum(required) more than one cent away from net_income
CallMismatch == Mismatch(SumValues(RawOfCall, Keys), Cents(net_income))

\* C5: after the proportional true-up (applied when |sum(required) - net_income|
\* > 0.01 and sum(required) != 0) the re-rounded required allocations sum to
\* net_income exactly.
C5_TrueUpReconciles ==
    (pc = "returned" /\ CallMismatch /\ SumValues(RawOfCall, Keys) # DZero)
    => SumValues(result.required_allocations, Keys) = Cents(net_income)

\* C6: when sum(required) differs from net_income by more than one cent (no
\* true-up can be requested by the caller), the solver fails closed: it raises
\* a reconciliation error and returns no allocation map.
\* (Stated for a non-zero sum, where the code rescales instead.)
C6_MismatchFailsClosed ==
    (pc = "returned" /\ CallMismatch /\ SumValues(RawOfCall, Keys) # DZero)
    => (result.raised /\ "required_allocations" \notin DOMAIN result)

\* C7: when sum(required) is exactly 0 and net_income differs from it by more
\* than one cent, the outcome reports the discrepancy: it is not the original
\* allocations returned as if reconciled.
C7_ZeroTotalReported ==
    (pc = "returned" /\ CallMismatch /\ SumValues(RawOfCall, Keys) = DZero)
    => ~(~result.raised /\ result.required_allocations = RawOfCall)

\* C8: two calls of calculate_target_allocations on one manager instance with
\* identical inputs return identical results, whatever calls came before.
C8_Deterministic ==
    \A i \in DOMAIN runs, j \in DOMAIN runs :
        runs[i].asset_values = runs[j].asset_values => runs[i].result = runs[j].result

\* C8 witness: a call, a call with another asset value that paid other
\* distributions, and the first call again
C8_Witness ==
    /\ Len(runs) = 3
    /\ runs[1].asset_values = runs[3].asset_values
    /\ runs[1].asset_values # runs[2].asset_values
    /\ runs[1].result.target_balances # runs[2].result.target_balances
    /\ \E id \in DOMAIN runs[1].result.target_balances :
           runs[1].result.target_balances[id] # DZero

\* the steps before the compared return_of_capital step pay nothing that
\* depends on capital_contributed
NoCapitalStepBefore ==
    \A i \in 1..(result.step_index - 1) :
        waterfall_steps[i].type \notin {"preferred_return", "return_of_capital"}

\* C9 as stated: for every waterfall, whatever precedes the return_of_capital
\* step, raising one partner's capital_contributed never lowers what that
\* partner is paid by the step, in both implementations.
C9_MonotoneEveryWaterfall ==
    pc = "returned" => DLe(result.amount, result.amount_raised)

\* C9 amended: the same, for waterfalls in which no preferred_return step and
\* no other return_of_capital step precedes the return_of_capital step.
C9_MonotoneFirstCapitalStep ==
    (pc = "returned" /\ NoCapitalStepBefore)
    => DLe(result.amount, result.amount_raised)

\* C9 witness: a return_of_capital step preceded by a catch_up, promote or
\* pro_rata step paid the partner strictly more after the raise
C9_Witness ==
    /\ pc = "returned"
    /\ NoCapitalStepBefore
    /\ result.step_index > 1
    /\ DGt(result.amount, DZero)
    /\ DLt(result.amount, result.amount_raised)

\* C10: the compliance validators report substantial_economic_effect = false
\* exactly when some target balance is strictly negative and both has_dro and
\* has_qio are false.
C10_SeeIffUnprotectedDeficit ==
    pc = "returned" =>
        ( result.compliance_check.substantial_economic_effect = FALSE
          <=> ( /\ \E id \in DOMAIN target_balances : target_balances[id].c < 0
                /\ ~agreement_terms.has_deficit_restoration_obligation
                /\ ~agreement_terms.has_qualified_income_offset ) )

\* C10 witness: a target of -0.01 with neither flag has been validated by the
\* manager and substantial_economic_effect came out false
C10_Witness ==
    /\ pc = "returned"
    /\ result.fn = "manager"
    /\ target_balances[PartnerIds[2]] = Cents(-1)
    /\ target_balances[PartnerIds[1]] = DZero
    /\ agreement_terms = NoTerms
    /\ result.compliance_check.substantial_economic_effect = FALSE

\* C11: _validate_allocations_compliance returns exactly four booleans;
\* deficit_restoration_obligation equals (has_dro OR has_qio),
\* capital_account_maintenance and liquidation_consistency are true, and with
\* no DRO/QIO and no negative target deficit_restoration_obligation is false
\* while substantial_economic_effect is true.
C11_FourIndependentChecks ==
    (pc = "returned" /\ result.fn = "manager") =>
        LET cc      == result.compliance_check
            has_dro == agreement_terms.has_deficit_restoration_obligation
            has_qio == agreement_terms.has_qualified_income_offset
        IN  /\ DOMAIN cc = {"substantial_economic_effect", "capital_account_maintenance",
                            "liquidation_consistency", "deficit_restoration_obligation"}
            /\ \A k \in DOMAIN cc : cc[k] \in BOOLEAN
            /\ cc.deficit_restoration_obligation = (has_dro \/ has_qio)
            /\ cc.capital_account_maintenance
            /\ cc.liquidation_consistency
            /\ ( (~has_dro /\ ~has_qio
                  /\ \A id \in DOMAIN target_balances : ~DLt(target_balances[id], DZero))
                 => (~cc.deficit_restoration_obligation /\ cc.substantial_economic_effect) )

\* C11 witness: the manager validated non-negative targets under an agreement
\* with neither provision: the flag is false and the effect test passed
C11_Witness ==
    /\ pc = "returned"
    /\ result.fn = "manager"
    /\ agreement_terms = NoTerms
    /\ \A id \in DOMAIN target_balances : ~DLt(target_balances[id], DZero)
    /\ \E id \in DOMAIN target_balances : DGt(target_balances[id], DZero)
    /\ ~result.compliance_check.deficit_restoration_obligation
    /\ result.compliance_check.substantial_economic_effect
\* the exact sum of the six terms of the call, in thousandths
ExactSumMills ==
    args.beginning_balance + args.contributions - args.distributions
    + args.income_allocations - args.loss_allocations + args.other_adjustments

\* C12: calculate_section_704b_balance returns the exact sum beginning +
\* contributions - distributions + income - losses + other, rounded once to
\* two decimals half-up (a half goes away from zero); the terms themselves
\* are not rounded.
C12_RoundedOnce ==
    pc = "returned" =>
        result.ending_balance
            = Cents(Sign(ExactSumMills) * ((Abs(ExactSumMills) + 5) \div 10))

\* C12 witness: no term reaches half a cent, the sum is exactly half a cent
\* and the call returned one cent
C12_Witness ==
    /\ pc = "returned"
    /\ \A k \in DOMAIN args : Abs(args[k]) < 5
    /\ ExactSumMills = 5
    /\ result.ending_balance = Cents(1)
\* C13: the monetary amounts the engine returns are quantized to two decimals
\* with round-half-up: every target balance of a completed call is the
\* half-up rounding of the partner's liquidation distribution.
C13_TargetsRoundedHalfUp ==
    \A i \in DOMAIN runs :
        \A id \in DOMAIN runs[i].result.target_balances :
            runs[i].result.target_balances[id]
                = QuantizeHalfUp(runs[i].result.waterfall_analysis.partner_distributions[id])

\* C14: calculate_section_754_adjustment with a non-zero total adjustment and
\* fair market values summing to zero returns every supplied asset id mapped
\* to a zero adjustment.
C14_ZeroFmvAllZeroMap ==
    ( /\ pc = "returned"
      /\ args.purchase_price # args.inside_basis
      /\ SumFmv(args.partnership_assets) = DZero )
    => /\ DOMAIN result.asset_adjustments
              = {args.partnership_assets[i].asset_id : i \in DOMAIN args.partnership_assets}
       /\ \A id \in DOMAIN result.asset_adjustments :
              result.asset_adjustments[id].basis_adjustment = DZero
\* the keys of the dict _model_liquidation_distribution returns
TraceKeys ==
    {"total_proceeds", "partner_distributions", "waterfall_steps_processed",
     "remaining_proceeds"}

\* C15: when a pro_rata step executes while the ownership percentages sum to
\* zero, no partner's distribution changes in that step and the returned
\* waterfall trace carries a flag marking the degenerate condition.
\* (Stated for positive proceeds and a pro_rata step that is the first step.)
C15_DegenerateProRataFlagged ==
    ( /\ pc = "returned"
      /\ total_proceeds > 0
      /\ steps_done = 1
      /\ step.type = "pro_rata"
      /\ SumOwnership(partners) = DZero )
    => /\ result.partner_distributions = ZeroMap(partners)
       /\ DOMAIN result \ ({"returned"} \cup TraceKeys) # {}

\* C18: when the ownership percentages do not sum to 1 and a pro_rata step has
\* divided the pool by their actual sum, the returned result carries a record
\* of the deviation.  (Stated for positive proceeds.)
C18_OwnershipDeviationSurfaced ==
    ( /\ pc = "returned"
      /\ total_proceeds > 0
      /\ step.type = "pro_rata"
      /\ DGt(SumOwnership(partners), Whole(1)) )
    => DOMAIN result \ ({"returned"} \cup TraceKeys) # {}
\* C16: a run given a partner with a missing or unparsable monetary field is
\* rejected before any waterfall step is applied: the distribution accumulator
\* is never changed and no result is returned.
C16_MalformedRejectedFirst ==
    Malformed(partners) =>
        /\ partner_distributions = ZeroMap(partners)
        /\ pc # "returned"

\* C17: a run of calculate_target_allocations, whether it returns or raises,
\* leaves the partners list with every partner field, the agreement terms
\* with the waterfall step list, and the asset values as they were.
C17_InputsUnchanged ==
    pc \in {"returned", "raised"} =>
        /\ partners = args.partners
        /\ waterfall_steps = args.distribution_waterfall
        /\ agreement_terms = args.agreement_terms
        /\ total_proceeds = args.asset_values
        /\ net_income = args.net_income

\* C17 witness: a run returned non-zero required allocations
C17_Witness ==
    /\ pc = "returned"
    /\ \A id \in DOMAIN result.required_allocations :
           result.required_allocations[id] # DZero
    /\ partners = args.partners
\* the exception text of a stage outcome, if it raises
TextIfRaised(o) == IF o.raises THEN {o.text} ELSE {}

\* the exception texts of the stages that raise in this call
RaisedTexts ==
    TextIfRaised(ExtractText(args.filename, args.extractor))
    \cup TextIfRaised(args.splitter)
    \cup TextIfRaised(args.extraction)
    \cup TextIfRaised(args.consolidation)

\* text extraction yields no text
NoText ==
    LET o == ExtractText(args.filename, args.extractor)
    IN  ~o.raises /\ o.value = ""

\* C19: parse_agreement always returns a result.  If a stage raises or no
\* text is found, the result has status failed, confidence 0.0, empty
\* extracted_data, the exception text as error_message and the caller's
\* filename and partnership_id; otherwise the status is completed when the
\* confidence is above 0.8 and requires_review when it is not.
C19_ParseNeverPropagates ==
    /\ pc \in {"extract_text", "split", "extract_data", "consolidate", "build",
               "except", "returned"}
    /\ pc = "returned" =>
          /\ result.returned
          /\ result.filename = args.filename
          /\ result.partnership_id = args.partnership_id
          /\ IF RaisedTexts # {} \/ NoText
             THEN /\ result.status = "failed"
                  /\ result.confidence_score.num = 0
                  /\ result.extracted_data = << >>
                  /\ \/ result.error_message \in RaisedTexts
                     \/ NoText /\ result.error_message
                                   = "No text content could be extracted from document"
             ELSE /\ result.status \in {"completed", "requires_review"}
                  /\ result.status = "completed"
                       <=> result.confidence_score.num > 8000 * result.confidence_score.den

\* C19 witness: a call in which every stage succeeded returned a confidence
\* of exactly 0.8 and the status requires_review
C19_Witness ==
    /\ pc = "returned"
    /\ RaisedTexts = {}
    /\ result.confidence_score.num = 8000 * result.confidence_score.den
    /\ result.status = "requires_review"
\* C20: the steps run in list order on one shared pool, and once remaining
\* <= 0 at a step boundary no later step changes any partner's distribution
\* or the pool.
C20_NoStepAfterPoolExhausted ==
    [][ DLe(remaining_proceeds, DZero)
        => /\ partner_distributions' = partner_distributions
           /\ remaining_proceeds' = remaining_proceeds ]_vars
\* what partner id was paid by iteration i of the recorded run
Paid(i, id) == DSub(trace[i].after[id], trace[i].before[id])

RECURSIVE RocPaidUpTo(_, _)
\* what partner id was paid by the return_of_capital iterations 1..i
RocPaidUpTo(i, id) ==
    IF i = 0 THEN DZero
    ELSE IF trace[i].step.type = "return_of_capital"
         THEN DAdd(RocPaidUpTo(i - 1, id), Paid(i, id))
         ELSE RocPaidUpTo(i - 1, id)

\* C21: in a return_of_capital step the first partner of the list receives
\* min(capital_contributed - what return_of_capital steps already paid that
\* partner, remaining); over all return_of_capital steps no partner receives
\* more than capital_contributed, and payments of other step kinds do not
\* reduce it.
C21_ReturnOfCapitalNetOfReturned ==
    \A i \in DOMAIN trace :
        trace[i].step.type = "return_of_capital" =>
            /\ Paid(i, partners[1].partner_id)
                 = DMin(DSub(Cents(partners[1].capital_contributed),
                             RocPaidUpTo(i - 1, partners[1].partner_id)),
                        trace[i].pool_before)
            /\ \A k \in DOMAIN partners :
                   DLe(RocPaidUpTo(i, partners[k].partner_id),
                       Cents(partners[k].capital_contributed))

\* C22: in a preferred_return step a partner is eligible when it is limited or
\* has the receives_preferred_return flag; the first partner of the list
\* receives min(capital_contributed x rate, remaining) when eligible and
\* nothing when not, in both implementations.
C22_PreferredReturnEligibility ==
    \A i \in DOMAIN trace :
        trace[i].step.type = "preferred_return" =>
            LET p == partners[1]
                eligible == p.partner_type = "limited" \/ p.receives_preferred_return
            IN  Paid(i, p.partner_id)
                  = IF eligible
                    THEN DMin(DMul(Cents(p.capital_contributed), Cents(trace[i].step.rate)),
                              trace[i].pool_before)
                    ELSE DZero

\* C23: in a catch_up or promote step whose percentage is a fraction in [0,1],
\* the first partner of the list receives remaining x percentage when eligible
\* (general for catch_up, receives_promote for promote) and nothing when not.
C23_CatchUpPromoteFraction ==
    \A i \in DOMAIN trace :
        ( trace[i].step.type \in {"catch_up", "promote"}
          /\ trace[i].step.percentage \in 0..1 ) =>
            LET p == partners[1]
                eligible == IF trace[i].step.type = "catch_up"
                            THEN p.partner_type = "general"
                            ELSE p.receives_promote
            IN  Paid(i, p.partner_id)
                  = IF eligible
                    THEN DMul(trace[i].pool_before, Whole(trace[i].step.percentage))
                    ELSE DZero

\* target - current of partner k as the solvers read them
RawDifference(k) ==
    DSub(GetOrZero(target_balances, partners[k].partner_id),
         CurrentCapitalBalance(partners[k]))

\* the raw difference of partner k as the called solver rounds it
SolverRounded(k) ==
    IF result.fn = "manager" THEN QuantizeHalfEven(RawDifference(k))
    ELSE QuantizeHalfUp(RawDifference(k))

\* v is d rounded to the nearest cent
RoundedToCents(v, d) == v.e >= -2 /\ DLe(DAbs(DSub(v, d)), HalfCents(1))

\* the returned allocations are the rounded differences, one per partner id
ReturnsRoundedDifferences ==
    /\ DOMAIN result.required_allocations = {partners[k].partner_id : k \in DOMAIN partners}
    /\ \A k \in DOMAIN partners :
           RoundedToCents(result.required_allocations[partners[k].partner_id],
                          RawDifference(k))

\* C24 as stated: when the sum of (target - current) is within one cent of
\* net_income, the solver returns target - current rounded to cents for every
\* supplied partner, a missing target or current balance counting as 0, with
\* exactly one entry per partner id.
C24_ExactWhenSumReconciles ==
    ( pc = "returned"
      /\ DLe(DAbs(DSub(DAdd(RawDifference(1), RawDifference(2)), Cents(net_income))),
             Precision) )
    => ReturnsRoundedDifferences

\* C24 amended: the same when the sum of the differences as the solver rounds
\* them is within one cent of net_income.
C24_ExactWhenRoundedSumReconciles ==
    ( pc = "returned"
      /\ DLe(DAbs(DSub(DAdd(SolverRounded(1), SolverRounded(2)), Cents(net_income))),
             Precision) )
    => ReturnsRoundedDifferences

\* C24 witness: the manager returned for a first partner without a current
\* balance and a second partner without a target, one difference falling on
\* a half cent, the rounded sum being one cent away from net_income
C24_Witness ==
    /\ pc = "returned"
    /\ result.fn = "manager"
    /\ "current_capital_balance" \notin DOMAIN partners[1]
    /\ partners[2].partner_id \notin DOMAIN target_balances
    /\ RawDifference(1).e < -2
    /\ DAbs(DSub(DAdd(SolverRounded(1), SolverRounded(2)), Cents(net_income))) = Precision
    /\ ReturnsRoundedDifferences

\* C25: in every result of calculate_target_allocations the allocations reach
\* the targets: current_capital_balance + required_allocations[p] equals
\* target_balances[p] for every partner, whether or not the true-up fired.
C25_AllocationsReachTargets ==
    ( pc = "idle" /\ result.returned ) =>
        \A k \in DOMAIN partners :
            DAdd(CurrentCapitalBalance(partners[k]),
                 result.required_allocations[partners[k].partner_id])
              = result.target_balances[partners[k].partner_id]

\* C27: waterfall_steps_processed is the number of steps executed before the
\* loop ended, less than the length of the list when the loop stopped early.
C27_StepsProcessedCountsExecuted ==
    pc = "returned" => result.waterfall_steps_processed = steps_done

\* C29: the two allocation solvers return the same required allocation for
\* every partner, on half cents and after the true-up as well.
C29_SolversAgree ==
    pc = "returned" =>
        MgrRequiredAllocations(partners, target_balances, Cents(net_income))
          = UtilTargetAllocations(partners, Cents(net_income), target_balances,
                                  CurrentBalances(partners))

\* C26: in _model_liquidation_distribution with non-negative proceeds,
\* capital, rates and ownership and percentages between 0 and 100, after
\* every step remaining_proceeds is within [0, total_proceeds] and every
\* partner's accumulated distribution is >= 0 and not below what it was
\* before the step.
C26_PoolAndDistributionsBounded ==
    [][ args.fn = "manager" =>
          /\ DLe(DZero, remaining_proceeds')
          /\ DLe(remaining_proceeds', Cents(total_proceeds))
          /\ \A id \in DOMAIN partner_distributions :
                 /\ DLe(DZero, partner_distributions'[id])
                 /\ DLe(partner_distributions[id], partner_distributions'[id]) ]_vars

\* C26 witness: after a catch_up step and one more step of the manager part
\* of the pool is left and both partners have received something
C26_Witness ==
    /\ args.fn = "manager"
    /\ Len(trace) = 2
    /\ trace[1].step.type = "catch_up"
    /\ DLt(DZero, remaining_proceeds)
    /\ DLt(remaining_proceeds, Cents(total_proceeds))
    /\ \A id \in DOMAIN partner_distributions : DLt(DZero, partner_distributions[id])

\* the compliance dict of the manager on the call's inputs
MgrVerdict ==
    MgrValidateCompliance(target_balances, agreement_terms, target_balances, PartnerIds)

\* the validation dict of the utility on the call's inputs
UtilVerdict ==
    UtilValidateSEE(target_balances, target_balances, agreement_terms, PartnerIds)

\* C28: on every balance map and every (has_dro, has_qio) the two validators
\* return the same substantial_economic_effect, capital_account_maintenance
\* and liquidation_consistency, and the manager's
\* deficit_restoration_obligation equals the utility's deficit_restoration.
C28_ValidatorsAgree ==
    pc = "returned" =>
        /\ result.compliance_check = IF result.fn = "manager" THEN MgrVerdict
                                     ELSE UtilVerdict
        /\ MgrVerdict.substantial_economic_effect = UtilVerdict.substantial_economic_effect
        /\ MgrVerdict.capital_account_maintenance = UtilVerdict.capital_account_maintenance
        /\ MgrVerdict.liquidation_consistency = UtilVerdict.liquidation_consistency
        /\ MgrVerdict.deficit_restoration_obligation = UtilVerdict.deficit_restoration

\* C28 witness: the utility returned for a map with a deficit balance under
\* an agreement with a qualified income offset only, and found substantial
\* economic effect
C28_Witness ==
    /\ pc = "returned"
    /\ result.fn = "utility"
    /\ \E id \in DOMAIN target_balances : DLt(target_balances[id], DZero)
    /\ ~agreement_terms.has_deficit_restoration_obligation
    /\ agreement_terms.has_qualified_income_offset
    /\ result.compliance_check.substantial_economic_effect

\* the date of the transaction is in ISO format
IsoFormatted(text) == ReplaceZ(text) \in IsoTexts

\* the conditions under which C30 requires an error
TxInvalid ==
    \/ ~args.transaction_type.present
    \/ ~args.partner_id.present
    \/ args.amount.kind = "missing"
    \/ ~args.transaction_date.present
    \/ /\ args.amount.kind = "value"
       /\ args.amount.cents < 0
       /\ args.transaction_type.value # "distribution"
    \/ ~IsoFormatted(args.transaction_date.value)
    \/ args.transaction_type.value \notin HandledTypes

\* the names of the calls made so far, in order
Calls == [i \in DOMAIN trace |-> trace[i].call]

\* C30: process_transaction validates before it acts.  With a required field
\* missing, a negative amount for a type other than distribution, a date
\* that is not ISO-formatted or an unhandled type it raises, no handler and
\* no compliance check has run and nothing is returned; otherwise the
\* handler of the type runs, then the compliance check, and a result with
\* empty validation_messages is returned.  (Stated for amounts that are
\* numbers or absent.)
C30_ValidatesBeforeActing ==
    ( pc \in {"raised", "returned"} /\ args.amount.kind # "unparsable" ) =>
        IF TxInvalid
        THEN /\ pc = "raised"
             /\ Calls = << >>
             /\ ~result.returned
        ELSE /\ pc = "returned"
             /\ Calls = <<"_process_" \o args.transaction_type.value, "_check_compliance">>
             /\ result.returned
             /\ result.validation_messages = << >>
====
